---- MODULE Spec2Model ----
(***************************************************************************)
(* Parallel sample sort of DNA sequences over MPI (src/src/SampleSort2.cpp) *)
(* and its sequential baseline (src/src/SequentialSort.cpp).                *)
(*                                                                          *)
(* Every rank runs main(); a rank's position is pc[p] together with the     *)
(* loop variables cur_p / cur_i / count.  A record travels as the pair of   *)
(* MPI messages (length, characters) the code always issues back to back;   *)
(* the pair is one frame of the model, tagged with the tag of its length    *)
(* message.                                                                 *)
(***************************************************************************)
EXTENDS Integers, Sequences, FiniteSets, TLC

\* ---------------------------------------------------------------- bounds
MaxK == 3          \* largest process count explored
MaxN == 3          \* largest number of lines in the input file

\* ------------------------------------------------------- program constants
MASTER == 0
ArgcExpected == 3
TagScatter == 0    \* length message of a scattered record (payload: tag 1)
TagSampleCount == 2
TagSample == 3     \* length message of a sample (payload: tag 4)
TagExchange == 5   \* length message of an exchanged record (payload: tag 6)
TagGather == 7     \* length message of a gathered record (payload: tag 8)
NUL == 0           \* the C string terminator

\* Characters are 1 ('A') and 2 ('C'); a record is a non-empty line.
Records == { <<1>>, <<1, 1>>, <<1, 2>>, <<2>> }

\* What an out-of-range read of a vector<string> may yield when it does not
\* fault: some string.
Garbage == Records \cup { <<>> }

\* All sequences over S of length at most m.
SeqUpTo(S, m) == UNION { [1..j -> S] : j \in 0..m }

\* ------------------------------------------------------------ pure helpers

\* std::string operator< : byte-wise lexicographic, a proper prefix is smaller.
RECURSIVE Less(_, _)
Less(a, b) ==
    IF b = <<>> THEN FALSE
    ELSE IF a = <<>> THEN TRUE
    ELSE IF a[1] # b[1] THEN a[1] < b[1]
    ELSE Less(Tail(a), Tail(b))

Leq(a, b) == ~Less(b, a)

\* Insert x into the ordered sequence s, after the elements not greater.
RECURSIVE InsertSorted(_, _)
InsertSorted(x, s) ==
    IF s = <<>> THEN <<x>>
    ELSE IF Less(x, s[1]) THEN <<x>> \o s
    ELSE <<s[1]>> \o InsertSorted(x, Tail(s))

\* Insertion sort; the sorted tail is bound as a value before the insertion.
RECURSIVE StdSort(_)
StdSort(s) ==
    IF s = <<>> THEN <<>>
    ELSE CHOOSE r \in { InsertSorted(s[1], rest) : rest \in { StdSort(Tail(s)) } } : TRUE

\* Mutant of sequential_sort: the call sorts nothing.
sequential_sort_missing(data) == data

\* sequential_sort of the parallel program: std::sort with operator<.
sequential_sort(data) == StdSort(data)

\* sequential_sort of the single-process baseline (SequentialSort.cpp).
baseline_sort(data) == StdSort(data)

\* Mutant of sort_samples: the gathered samples are left in arrival order.
sort_samples_missing(smp) == smp

\* sort(gathered_samples.begin(), gathered_samples.end()) on rank 0.
sort_samples(smp) == StdSort(smp)

\* s.c_str() sent with len = s.size() + 1: the characters and the terminator.
encode(s) == [len |-> Len(s) + 1, buf |-> s \o <<NUL>>]

\* Mutant of decode: the last character is taken for the terminator.
RECURSIVE decode_short(_)
decode_short(buf) ==
    IF buf = <<>> \/ buf[1] = NUL \/ Len(buf) <= 2 THEN <<>>
    ELSE <<buf[1]>> \o decode_short(Tail(buf))

\* string(buf.data()): the characters before the first terminator.
RECURSIVE decode(_)
decode(buf) ==
    IF buf = <<>> \/ buf[1] = NUL THEN <<>>
    ELSE <<buf[1]>> \o decode(Tail(buf))

\* read_file: the non-empty lines of the file, in order.
read_file(lines) == SelectSeq(lines, LAMBDA l : l # <<>>)

\* Mutant of ShareCount: the remainder is forgotten.
ShareCountNoRemainder(nn, k, p) == nn \div k

\* Mutant of ShareCount: the remainder goes to the highest ranks.
ShareCountHighRanks(nn, k, p) == (nn \div k) + (IF p >= k - (nn % k) THEN 1 ELSE 0)

\* n / size + (p < n % size ? 1 : 0)
ShareCount(nn, k, p) == (nn \div k) + (IF p < (nn % k) THEN 1 ELSE 0)

\* The sample loop from i on: indices i * n / (s + 1), i = 1..s, those below n kept.
RECURSIVE SampleFrom(_, _, _)
SampleFrom(data, s, i) ==
    IF i > s THEN <<>>
    ELSE LET idx == (i * Len(data)) \div (s + 1)
         IN  (IF idx < Len(data) THEN <<data[idx + 1]>> ELSE <<>>)
             \o SampleFrom(data, s, i + 1)

\* Mutant of Sampler: the index is i * n / s.
RECURSIVE SampleFromWrongDivisor(_, _, _)
SampleFromWrongDivisor(data, s, i) ==
    IF i > s THEN <<>>
    ELSE LET idx == (i * Len(data)) \div s
         IN  (IF idx < Len(data) THEN <<data[idx + 1]>> ELSE <<>>)
             \o SampleFromWrongDivisor(data, s, i + 1)

SamplerWrongDivisor(data, s) == SampleFromWrongDivisor(data, s, 1)

\* Mutant of Sampler: the loop starts at i = 0.
SamplerFromZero(data, s) == SampleFrom(data, s, 0)

\* Mutant of Sampler: an index that repeats the previous one is skipped too.
RECURSIVE SampleFromDistinct(_, _, _)
SampleFromDistinct(data, s, i) ==
    IF i > s THEN <<>>
    ELSE LET idx  == (i * Len(data)) \div (s + 1)
             prev == ((i - 1) * Len(data)) \div (s + 1)
         IN  (IF idx < Len(data) /\ (i = 1 \/ idx # prev)
              THEN <<data[idx + 1]>> ELSE <<>>)
             \o SampleFromDistinct(data, s, i + 1)

SamplerDistinct(data, s) == SampleFromDistinct(data, s, 1)

Sampler(data, s) == SampleFrom(data, s, 1)

\* Mutant of PivotIndex: the 1-based loop variable is advanced once more.
PivotIndexOffByOne(i, m, k) == ((i + 1) * m) \div k

\* Index read for pivot i (1-based loop variable): i * m / size.
PivotIndex(i, m, k) == (i * m) \div k

\* std::upper_bound over pv (0-based result): binary search for the first
\* element that value is less than.
RECURSIVE UpperBoundFrom(_, _, _, _)
UpperBoundFrom(pv, value, first, cnt) ==
    IF cnt <= 0 THEN first
    ELSE LET step == cnt \div 2
             it   == first + step
         IN  IF ~Less(value, pv[it + 1])
             THEN UpperBoundFrom(pv, value, it + 1, cnt - (step + 1))
             ELSE UpperBoundFrom(pv, value, first, step)

\* Mutant of upper_bound: std::lower_bound, the first element not less
\* than value.
RECURSIVE LowerBoundFrom(_, _, _, _)
LowerBoundFrom(pv, value, first, cnt) ==
    IF cnt <= 0 THEN first
    ELSE LET step == cnt \div 2
             it   == first + step
         IN  IF Less(pv[it + 1], value)
             THEN LowerBoundFrom(pv, value, it + 1, cnt - (step + 1))
             ELSE LowerBoundFrom(pv, value, first, step)

lower_bound(pv, value) == LowerBoundFrom(pv, value, 0, Len(pv))

\* Mutant of upper_bound: the position is measured from pivots.end().
upper_bound_from_end(pv, value) == Len(pv) - UpperBoundFrom(pv, value, 0, Len(pv))

upper_bound(pv, value) == UpperBoundFrom(pv, value, 0, Len(pv))

\* buckets[pos].push_back(seq) for every seq of data, in order.
RECURSIVE Partitioner(_, _, _)
Partitioner(data, pv, k) ==
    IF data = <<>> THEN [d \in 1..k |-> <<>>]
    ELSE LET rest == Partitioner(SubSeq(data, 1, Len(data) - 1), pv, k)
             x    == data[Len(data)]
             pos  == upper_bound(pv, x)
         IN  [rest EXCEPT ![pos + 1] = Append(@, x)]

\* Concatenation of a sequence of sequences.
RECURSIVE Flatten(_)
Flatten(ss) == IF ss = <<>> THEN <<>> ELSE ss[1] \o Flatten(Tail(ss))

\* ------------------------------------------------------------------ state
VARIABLES
    argc,             \* argument count the group was started with
    in_ok,            \* the input file can be opened
    out_ok,           \* the output file can be opened
    buffered,         \* MPI_Send completes without the matching receive
    size,             \* number of processes
    input_file,       \* lines of the input file
    pc,               \* position of each rank in main()
    n,                \* each rank's n
    all_data,         \* rank 0's all_data
    offset,           \* rank 0's scatter offset
    local_data,       \* each rank's local_data
    samples,          \* each rank's samples
    gathered_samples, \* rank 0's gathered_samples
    pivots,           \* each rank's pivots
    buckets,          \* each rank's buckets
    recv_sizes,       \* each rank's recv_sizes
    new_local,        \* each rank's new_local
    final_counts,     \* rank 0's final_counts
    final_all,        \* rank 0's final_all
    output_file,      \* <<>> while nothing was written, else << lines >>
    cur_p,            \* each rank's loop variable p
    cur_i,            \* each rank's loop variable i
    count,            \* each rank's count (-1: not set yet)
    chan,             \* frames sent and not yet received, per ordered pair
    bcast_n,          \* value rank 0 broadcast for n (-1: not yet)
    bcast_piv,        \* pivot frames rank 0 has broadcast so far
    a2a,              \* send_sizes each rank passed to MPI_Alltoall
    gath,             \* final_local_n each rank passed to MPI_Gather (-1: not yet)
    nsent,            \* number of frames sent so far, per ordered pair
    diag,             \* ranks that printed the usage message
    oob_read          \* an index outside gathered_samples was read

cfg == <<argc, in_ok, out_ok, buffered, size, input_file>>
vars == <<argc, in_ok, out_ok, buffered, size, input_file, pc, n, all_data,
          offset, local_data, samples, gathered_samples, pivots, buckets,
          recv_sizes, new_local, final_counts, final_all, output_file,
          cur_p, cur_i, count, chan, bcast_n, bcast_piv, a2a, gath, nsent,
          diag, oob_read>>

Procs == 0..(size - 1)
Pairs == Procs \X Procs

\* The state of the group when mpirun has started every rank.
Init ==
    /\ argc \in {ArgcExpected - 1, ArgcExpected}
    /\ in_ok \in BOOLEAN
    /\ out_ok \in BOOLEAN
    /\ buffered \in BOOLEAN
    /\ size \in 1..MaxK
    /\ input_file \in SeqUpTo(Records, MaxN)
    \* a file that cannot be opened has no content to speak of, and a run
    \* with the wrong argument count names no files
    /\ (~in_ok) => (input_file = <<>> /\ out_ok)
    /\ (argc # ArgcExpected) => (in_ok /\ out_ok /\ input_file = <<>>)
    /\ pc = [p \in Procs |-> "start"]
    /\ n = [p \in Procs |-> 0]
    /\ all_data = <<>>
    /\ offset = 0
    /\ local_data = [p \in Procs |-> <<>>]
    /\ samples = [p \in Procs |-> <<>>]
    /\ gathered_samples = <<>>
    /\ pivots = [p \in Procs |-> <<>>]
    /\ buckets = [p \in Procs |-> <<>>]
    /\ recv_sizes = [p \in Procs |-> <<>>]
    /\ new_local = [p \in Procs |-> <<>>]
    /\ final_counts = <<>>
    /\ final_all = <<>>
    /\ output_file = <<>>
    /\ cur_p = [p \in Procs |-> 0]
    /\ cur_i = [p \in Procs |-> 0]
    /\ count = [p \in Procs |-> -1]
    /\ chan = [pr \in Pairs |-> <<>>]
    /\ bcast_n = -1
    /\ bcast_piv = <<>>
    /\ a2a = [p \in Procs |-> <<>>]
    /\ gath = [p \in Procs |-> -1]
    /\ nsent = [pr \in Pairs |-> 0]
    /\ diag = {}
    /\ oob_read = FALSE


\* ------------------------------------------------------- message passing
Frame(tag, val, buf) == [tag |-> tag, val |-> val, buf |-> buf]

\* A frame carrying the record s: MPI_Send(&len ...) then MPI_Send(s.c_str(), len ...).
RecordFrame(tag, s) == Frame(tag, encode(s).len, encode(s).buf)

\* Rank r is blocked in (or about to issue) the MPI_Recv that matches a
\* frame with this tag from rank s.
ReadyToRecv(r, s, tag) ==
    \/ /\ tag = TagScatter
       /\ s = MASTER /\ r # MASTER
       /\ pc[r] = "scatter" /\ cur_i[r] < Len(local_data[r])
    \/ /\ tag = TagSampleCount
       /\ r = MASTER /\ s # MASTER
       /\ pc[r] = "collect" /\ cur_p[r] = s /\ count[r] = -1
    \/ /\ tag = TagSample
       /\ r = MASTER /\ s # MASTER
       /\ pc[r] = "collect" /\ cur_p[r] = s /\ count[r] >= 0 /\ cur_i[r] < count[r]
    \/ /\ tag = TagExchange
       /\ r # s
       /\ pc[r] = "exch_recv" /\ cur_p[r] = s /\ cur_i[r] < recv_sizes[r][s + 1]
    \/ /\ tag = TagGather
       /\ r = MASTER /\ s # MASTER
       /\ pc[r] = "gather_recv" /\ cur_p[r] = s /\ cur_i[r] < final_counts[s + 1]

\* MPI_Send in standard mode returns either because the message was buffered
\* or because the destination has reached the matching receive.
CanSend(s, r, tag) ==
    \/ buffered
    \/ chan[<<s, r>>] = <<>> /\ ReadyToRecv(r, s, tag)

\* Position in chan[s, r] of the first frame with this tag (0: none).
FirstWithTag(s, r, tag) ==
    LET q == chan[<<s, r>>]
        I == { i \in 1..Len(q) : q[i].tag = tag }
    IN  IF I = {} THEN 0 ELSE CHOOSE i \in I : \A j \in I : i <= j

RemoveAt(q, i) == SubSeq(q, 1, i - 1) \o SubSeq(q, i + 1, Len(q))

\* Effect of a completed MPI_Send of frame f from s to r.
Send(s, r, f) ==
    /\ CanSend(s, r, f.tag)
    /\ chan' = [chan EXCEPT ![<<s, r>>] = Append(@, f)]
    /\ nsent' = [nsent EXCEPT ![<<s, r>>] = @ + 1]

\* The frame an MPI_Recv(source s, tag) at r returns; enabled when there is one.
CanRecv(s, r, tag) == FirstWithTag(s, r, tag) # 0
Received(s, r, tag) == chan[<<s, r>>][FirstWithTag(s, r, tag)]
Recv(s, r, tag) ==
    /\ CanRecv(s, r, tag)
    /\ chan' = [chan EXCEPT ![<<s, r>>] = RemoveAt(@, FirstWithTag(s, r, tag))]
    /\ UNCHANGED nsent

\* ------------------------------------------------------- variable groups
hist == <<diag, oob_read>>
coll == <<bcast_n, bcast_piv, a2a, gath>>
comm == <<chan, nsent>>
late == <<final_counts, final_all, output_file>>
mid  == <<pivots, buckets, recv_sizes, new_local>>

\* ---------------------------------------------------- start-up and input

\* Mutant of UsageExit: the usage line is printed without the rank test.
UsageExitAllPrint(p) ==
    /\ pc[p] = "start"
    /\ argc # ArgcExpected
    /\ diag' = diag \cup {p}
    /\ pc' = [pc EXCEPT ![p] = "exit1"]
    /\ UNCHANGED <<cfg, n, all_data, offset, local_data, samples,
                   gathered_samples, mid, late, cur_p, cur_i, count, comm,
                   coll, oob_read>>

\* argc != 3: rank 0 prints the usage line, every rank finalizes and returns 1.
UsageExit(p) ==
    /\ pc[p] = "start"
    /\ argc # ArgcExpected
    /\ diag' = IF p = MASTER THEN diag \cup {p} ELSE diag
    /\ pc' = [pc EXCEPT ![p] = "exit1"]
    /\ UNCHANGED <<cfg, n, all_data, offset, local_data, samples,
                   gathered_samples, mid, late, cur_p, cur_i, count, comm,
                   coll, oob_read>>

\* Rank 0 reads the input: all_data = read_file(argv[1]); n = all_data.size().
ReadInput ==
    /\ pc[MASTER] = "start"
    /\ argc = ArgcExpected
    /\ in_ok
    /\ all_data' = read_file(input_file)
    /\ n' = [n EXCEPT ![MASTER] = Len(all_data')]
    /\ pc' = [pc EXCEPT ![MASTER] = "bcast_n"]
    /\ UNCHANGED <<cfg, offset, local_data, samples, gathered_samples, mid,
                   late, cur_p, cur_i, count, comm, coll, hist>>

\* read_file throws; nothing in main catches it, so rank 0 terminates
\* abnormally without calling MPI_Abort or MPI_Finalize.
ReadInputFails ==
    /\ pc[MASTER] = "start"
    /\ argc = ArgcExpected
    /\ ~in_ok
    /\ pc' = [pc EXCEPT ![MASTER] = "aborted"]
    /\ UNCHANGED <<cfg, n, all_data, offset, local_data, samples,
                   gathered_samples, mid, late, cur_p, cur_i, count, comm,
                   coll, hist>>

\* local_data.resize(local_n) with local_n the rank's share.
Resized(nn, p) == [i \in 1..ShareCount(nn, size, p) |-> <<>>]

\* MPI_Bcast(&n) at the root, then the resize of local_data.
BcastNRoot ==
    /\ pc[MASTER] = "bcast_n"
    /\ bcast_n' = n[MASTER]
    /\ local_data' = [local_data EXCEPT ![MASTER] = Resized(n[MASTER], MASTER)]
    /\ pc' = [pc EXCEPT ![MASTER] = "scatter"]
    /\ cur_p' = [cur_p EXCEPT ![MASTER] = 0]
    /\ cur_i' = [cur_i EXCEPT ![MASTER] = 0]
    /\ UNCHANGED <<cfg, n, all_data, offset, samples, gathered_samples, mid,
                   late, count, comm, bcast_piv, a2a, gath, hist>>

\* MPI_Bcast(&n) at another rank: returns once the root has broadcast.
BcastNRecv(p) ==
    /\ p # MASTER
    /\ pc[p] = "start"
    /\ argc = ArgcExpected
    /\ bcast_n >= 0
    /\ n' = [n EXCEPT ![p] = bcast_n]
    /\ local_data' = [local_data EXCEPT ![p] = Resized(bcast_n, p)]
    /\ pc' = [pc EXCEPT ![p] = "scatter"]
    /\ cur_i' = [cur_i EXCEPT ![p] = 0]
    /\ UNCHANGED <<cfg, all_data, offset, samples, gathered_samples, mid,
                   late, cur_p, count, comm, coll, hist>>

\* ---------------------------------------------------------------- scatter

\* p == MASTER in the scatter loop: copy(all_data.begin(), all_data.begin() + count, ...).
ScatterCopy ==
    /\ pc[MASTER] = "scatter"
    /\ cur_p[MASTER] = MASTER
    /\ LET cnt == ShareCount(n[MASTER], size, MASTER)
       IN  /\ local_data' = [local_data EXCEPT ![MASTER] =
                  [i \in 1..Len(@) |-> IF i <= cnt THEN all_data[i] ELSE @[i]]]
           /\ offset' = offset + cnt
    /\ cur_p' = [cur_p EXCEPT ![MASTER] = @ + 1]
    /\ UNCHANGED <<cfg, pc, n, all_data, samples, gathered_samples, mid, late,
                   cur_i, count, comm, coll, hist>>

\* One record of rank cur_p's share: all_data[offset + i].
ScatterSend ==
    /\ pc[MASTER] = "scatter"
    /\ cur_p[MASTER] # MASTER /\ cur_p[MASTER] < size
    /\ cur_i[MASTER] < ShareCount(n[MASTER], size, cur_p[MASTER])
    /\ Send(MASTER, cur_p[MASTER],
            RecordFrame(TagScatter, all_data[offset + cur_i[MASTER] + 1]))
    /\ cur_i' = [cur_i EXCEPT ![MASTER] = @ + 1]
    /\ UNCHANGED <<cfg, pc, n, all_data, offset, local_data, samples,
                   gathered_samples, mid, late, cur_p, count, coll, hist>>

\* End of the inner loop: offset += count; p++.
ScatterNext ==
    /\ pc[MASTER] = "scatter"
    /\ cur_p[MASTER] # MASTER /\ cur_p[MASTER] < size
    /\ cur_i[MASTER] >= ShareCount(n[MASTER], size, cur_p[MASTER])
    /\ offset' = offset + ShareCount(n[MASTER], size, cur_p[MASTER])
    /\ cur_p' = [cur_p EXCEPT ![MASTER] = @ + 1]
    /\ cur_i' = [cur_i EXCEPT ![MASTER] = 0]
    /\ UNCHANGED <<cfg, pc, n, all_data, local_data, samples,
                   gathered_samples, mid, late, count, comm, coll, hist>>

\* A rank other than 0 receives record i of its share.
ScatterRecv(p) ==
    /\ p # MASTER
    /\ pc[p] = "scatter"
    /\ cur_i[p] < Len(local_data[p])
    /\ Recv(MASTER, p, TagScatter)
    /\ local_data' = [local_data EXCEPT ![p][cur_i[p] + 1] =
                          decode(Received(MASTER, p, TagScatter).buf)]
    /\ cur_i' = [cur_i EXCEPT ![p] = @ + 1]
    /\ UNCHANGED <<cfg, pc, n, all_data, offset, samples, gathered_samples,
                   mid, late, cur_p, count, coll, hist>>

\* sequential_sort(local_data), the sample loop, and on rank 0
\* gathered_samples = samples.
LocalSort(p) ==
    /\ pc[p] = "scatter"
    /\ IF p = MASTER THEN cur_p[p] >= size ELSE cur_i[p] >= Len(local_data[p])
    /\ local_data' = [local_data EXCEPT ![p] = sequential_sort(@)]
    /\ samples' = [samples EXCEPT ![p] = Sampler(local_data'[p], size - 1)]
    /\ gathered_samples' = IF p = MASTER THEN samples'[p] ELSE gathered_samples
    /\ pc' = [pc EXCEPT ![p] = "collect"]
    /\ cur_p' = [cur_p EXCEPT ![p] = 1]
    /\ cur_i' = [cur_i EXCEPT ![p] = 0]
    /\ count' = [count EXCEPT ![p] = -1]
    /\ UNCHANGED <<cfg, n, all_data, offset, mid, late, comm, coll, hist>>


\* ------------------------------------------------------ sample collection

\* Rank 0: MPI_Recv(&count ...) from rank p.
SampleRecvCount ==
    /\ pc[MASTER] = "collect"
    /\ cur_p[MASTER] < size
    /\ count[MASTER] = -1
    /\ Recv(cur_p[MASTER], MASTER, TagSampleCount)
    /\ count' = [count EXCEPT ![MASTER] =
                     Received(cur_p[MASTER], MASTER, TagSampleCount).val]
    /\ cur_i' = [cur_i EXCEPT ![MASTER] = 0]
    /\ UNCHANGED <<cfg, pc, n, all_data, offset, local_data, samples,
                   gathered_samples, mid, late, cur_p, coll, hist>>

\* Rank 0: one sample of rank p, appended to gathered_samples.
SampleRecv ==
    /\ pc[MASTER] = "collect"
    /\ cur_p[MASTER] < size
    /\ count[MASTER] >= 0
    /\ cur_i[MASTER] < count[MASTER]
    /\ Recv(cur_p[MASTER], MASTER, TagSample)
    /\ gathered_samples' = Append(gathered_samples,
           decode(Received(cur_p[MASTER], MASTER, TagSample).buf))
    /\ cur_i' = [cur_i EXCEPT ![MASTER] = @ + 1]
    /\ UNCHANGED <<cfg, pc, n, all_data, offset, local_data, samples, mid,
                   late, cur_p, count, coll, hist>>

\* Rank 0: all count samples of rank p received; p++.
SampleRecvNext ==
    /\ pc[MASTER] = "collect"
    /\ cur_p[MASTER] < size
    /\ count[MASTER] >= 0
    /\ cur_i[MASTER] >= count[MASTER]
    /\ cur_p' = [cur_p EXCEPT ![MASTER] = @ + 1]
    /\ cur_i' = [cur_i EXCEPT ![MASTER] = 0]
    /\ count' = [count EXCEPT ![MASTER] = -1]
    /\ UNCHANGED <<cfg, pc, n, all_data, offset, local_data, samples,
                   gathered_samples, mid, late, comm, coll, hist>>

\* Mutant of SampleSendCount: the count goes out under the samples' tag.
SampleSendCountWrongTag(p) ==
    /\ p # MASTER
    /\ pc[p] = "collect"
    /\ count[p] = -1
    /\ Send(p, MASTER, Frame(TagSample, Len(samples[p]), <<>>))
    /\ count' = [count EXCEPT ![p] = Len(samples[p])]
    /\ cur_i' = [cur_i EXCEPT ![p] = 0]
    /\ UNCHANGED <<cfg, pc, n, all_data, offset, local_data, samples,
                   gathered_samples, mid, late, cur_p, coll, hist>>

\* Another rank: count = samples.size(); MPI_Send(&count ...).
SampleSendCount(p) ==
    /\ p # MASTER
    /\ pc[p] = "collect"
    /\ count[p] = -1
    /\ Send(p, MASTER, Frame(TagSampleCount, Len(samples[p]), <<>>))
    /\ count' = [count EXCEPT ![p] = Len(samples[p])]
    /\ cur_i' = [cur_i EXCEPT ![p] = 0]
    /\ UNCHANGED <<cfg, pc, n, all_data, offset, local_data, samples,
                   gathered_samples, mid, late, cur_p, coll, hist>>

\* Another rank: one sample.
SampleSend(p) ==
    /\ p # MASTER
    /\ pc[p] = "collect"
    /\ count[p] >= 0
    /\ cur_i[p] < Len(samples[p])
    /\ Send(p, MASTER, RecordFrame(TagSample, samples[p][cur_i[p] + 1]))
    /\ cur_i' = [cur_i EXCEPT ![p] = @ + 1]
    /\ UNCHANGED <<cfg, pc, n, all_data, offset, local_data, samples,
                   gathered_samples, mid, late, cur_p, count, coll, hist>>

\* --------------------------------------------------------- pivot selection

\* The pivot loop reads gathered_samples[i * m / size] for i = 1..size-1.
PivotReadsInRange(m, k) == \A i \in 1..(k - 1) : PivotIndex(i, m, k) < m

SelectPivots(sorted, k) ==
    [i \in 1..(k - 1) |-> sorted[PivotIndex(i, Len(sorted), k) + 1]]

\* Rank 0: vector<string> pivots(size - 1); sort the samples; pick the pivots.
PivotSelect ==
    /\ pc[MASTER] = "collect"
    /\ cur_p[MASTER] >= size
    /\ PivotReadsInRange(Len(gathered_samples), size)
    /\ gathered_samples' = sort_samples(gathered_samples)
    /\ pivots' = [pivots EXCEPT ![MASTER] = SelectPivots(gathered_samples', size)]
    /\ pc' = [pc EXCEPT ![MASTER] = "pivot_bcast"]
    /\ cur_i' = [cur_i EXCEPT ![MASTER] = 0]
    /\ UNCHANGED <<cfg, n, all_data, offset, local_data, samples, buckets,
                   recv_sizes, new_local, late, cur_p, count, comm, coll, hist>>

\* Rank 0 reads gathered_samples outside its bounds (undefined behaviour):
\* the read faults and the process dies ...
PivotSelectFault ==
    /\ pc[MASTER] = "collect"
    /\ cur_p[MASTER] >= size
    /\ ~PivotReadsInRange(Len(gathered_samples), size)
    /\ oob_read' = TRUE
    /\ pc' = [pc EXCEPT ![MASTER] = "crashed"]
    /\ UNCHANGED <<cfg, n, all_data, offset, local_data, samples,
                   gathered_samples, mid, late, cur_p, cur_i, count, comm,
                   coll, diag>>

\* ... or it yields some string for each pivot read out of range.
PivotSelectGarbage ==
    /\ pc[MASTER] = "collect"
    /\ cur_p[MASTER] >= size
    /\ ~PivotReadsInRange(Len(gathered_samples), size)
    /\ oob_read' = TRUE
    /\ gathered_samples' = sort_samples(gathered_samples)
    /\ \E g \in [1..(size - 1) -> Garbage] :
          pivots' = [pivots EXCEPT ![MASTER] =
              [i \in 1..(size - 1) |->
                  IF PivotIndex(i, Len(gathered_samples), size) < Len(gathered_samples)
                  THEN gathered_samples'[PivotIndex(i, Len(gathered_samples), size) + 1]
                  ELSE g[i]]]
    /\ pc' = [pc EXCEPT ![MASTER] = "pivot_bcast"]
    /\ cur_i' = [cur_i EXCEPT ![MASTER] = 0]
    /\ UNCHANGED <<cfg, n, all_data, offset, local_data, samples, buckets,
                   recv_sizes, new_local, late, cur_p, count, comm, coll, diag>>

\* Another rank, its samples sent: vector<string> pivots(size - 1).
PivotsAlloc(p) ==
    /\ p # MASTER
    /\ pc[p] = "collect"
    /\ count[p] >= 0
    /\ cur_i[p] >= Len(samples[p])
    /\ pivots' = [pivots EXCEPT ![p] = [i \in 1..(size - 1) |-> <<>>]]
    /\ pc' = [pc EXCEPT ![p] = "pivot_bcast"]
    /\ cur_i' = [cur_i EXCEPT ![p] = 0]
    /\ UNCHANGED <<cfg, n, all_data, offset, local_data, samples,
                   gathered_samples, buckets, recv_sizes, new_local, late,
                   cur_p, count, comm, coll, hist>>

\* Rank 0 broadcasts pivot i: len = size() + 1, strcpy into buf, and reads
\* its own pivot back from buf.
PivotBcastRoot ==
    /\ pc[MASTER] = "pivot_bcast"
    /\ cur_i[MASTER] < size - 1
    /\ LET f == encode(pivots[MASTER][cur_i[MASTER] + 1])
       IN  /\ bcast_piv' = Append(bcast_piv, f)
           /\ pivots' = [pivots EXCEPT ![MASTER][cur_i[MASTER] + 1] = decode(f.buf)]
    /\ cur_i' = [cur_i EXCEPT ![MASTER] = @ + 1]
    /\ UNCHANGED <<cfg, pc, n, all_data, offset, local_data, samples,
                   gathered_samples, buckets, recv_sizes, new_local, late,
                   cur_p, count, comm, bcast_n, a2a, gath, hist>>

\* Another rank takes part in the broadcast of pivot i.
PivotBcastRecv(p) ==
    /\ p # MASTER
    /\ pc[p] = "pivot_bcast"
    /\ cur_i[p] < size - 1
    /\ Len(bcast_piv) > cur_i[p]
    /\ pivots' = [pivots EXCEPT ![p][cur_i[p] + 1] = decode(bcast_piv[cur_i[p] + 1].buf)]
    /\ cur_i' = [cur_i EXCEPT ![p] = @ + 1]
    /\ UNCHANGED <<cfg, pc, n, all_data, offset, local_data, samples,
                   gathered_samples, buckets, recv_sizes, new_local, late,
                   cur_p, count, comm, coll, hist>>

\* ------------------------------------------------- partition and exchange

\* Bucket the local records by upper_bound over the pivots, fill send_sizes
\* and enter MPI_Alltoall with them.
Partition(p) ==
    /\ pc[p] = "pivot_bcast"
    /\ cur_i[p] >= size - 1
    /\ buckets' = [buckets EXCEPT ![p] = Partitioner(local_data[p], pivots[p], size)]
    /\ a2a' = [a2a EXCEPT ![p] = [d \in 1..size |-> Len(buckets'[p][d])]]
    /\ pc' = [pc EXCEPT ![p] = "alltoall"]
    /\ UNCHANGED <<cfg, n, all_data, offset, local_data, samples,
                   gathered_samples, pivots, recv_sizes, new_local, late,
                   cur_p, cur_i, count, comm, bcast_n, bcast_piv, gath, hist>>

\* Mutant of Alltoall: the call returns as soon as the rank itself has
\* entered; counts not announced yet read as 0.
AlltoallEarly(p) ==
    /\ pc[p] = "alltoall"
    /\ a2a[p] # <<>>
    /\ recv_sizes' = [recv_sizes EXCEPT ![p] =
           [q \in 1..size |-> IF a2a[q - 1] = <<>> THEN 0 ELSE a2a[q - 1][p + 1]]]
    /\ new_local' = [new_local EXCEPT ![p] = <<>>]
    /\ pc' = [pc EXCEPT ![p] = "exch_send"]
    /\ cur_p' = [cur_p EXCEPT ![p] = 0]
    /\ cur_i' = [cur_i EXCEPT ![p] = 0]
    /\ UNCHANGED <<cfg, n, all_data, offset, local_data, samples,
                   gathered_samples, pivots, buckets, late, count, comm, coll,
                   hist>>

\* Mutant of Alltoall: the rank takes its own send_sizes for recv_sizes.
AlltoallOwnSizes(p) ==
    /\ pc[p] = "alltoall"
    /\ \A q \in Procs : a2a[q] # <<>>
    /\ recv_sizes' = [recv_sizes EXCEPT ![p] = a2a[p]]
    /\ new_local' = [new_local EXCEPT ![p] = <<>>]
    /\ pc' = [pc EXCEPT ![p] = "exch_send"]
    /\ cur_p' = [cur_p EXCEPT ![p] = 0]
    /\ cur_i' = [cur_i EXCEPT ![p] = 0]
    /\ UNCHANGED <<cfg, n, all_data, offset, local_data, samples,
                   gathered_samples, pivots, buckets, late, count, comm, coll,
                   hist>>

\* MPI_Alltoall returns: recv_sizes[q] is what rank q announced for this rank.
Alltoall(p) ==
    /\ pc[p] = "alltoall"
    /\ \A q \in Procs : a2a[q] # <<>>
    /\ recv_sizes' = [recv_sizes EXCEPT ![p] = [q \in 1..size |-> a2a[q - 1][p + 1]]]
    /\ new_local' = [new_local EXCEPT ![p] = <<>>]
    /\ pc' = [pc EXCEPT ![p] = "exch_send"]
    /\ cur_p' = [cur_p EXCEPT ![p] = 0]
    /\ cur_i' = [cur_i EXCEPT ![p] = 0]
    /\ UNCHANGED <<cfg, n, all_data, offset, local_data, samples,
                   gathered_samples, pivots, buckets, late, count, comm, coll,
                   hist>>

\* p++ in the send loop; after the last destination the receive loop starts.
SendLoopAdvance(p) ==
    /\ pc' = [pc EXCEPT ![p] = IF cur_p[p] + 1 >= size THEN "exch_recv" ELSE @]
    /\ cur_p' = [cur_p EXCEPT ![p] = IF cur_p[p] + 1 >= size THEN 0 ELSE @ + 1]
    /\ cur_i' = [cur_i EXCEPT ![p] = 0]

\* Mutant of ExchKeepOwn: p == rank is skipped and the own bucket stays behind.
ExchSkipOwn(p) ==
    /\ pc[p] = "exch_send"
    /\ cur_p[p] = p
    /\ SendLoopAdvance(p)
    /\ UNCHANGED <<cfg, n, all_data, offset, local_data, samples,
                   gathered_samples, mid, late, count, comm, coll, hist>>

\* p == rank in the send loop: the own bucket goes straight into new_local.
ExchKeepOwn(p) ==
    /\ pc[p] = "exch_send"
    /\ cur_p[p] = p
    /\ new_local' = [new_local EXCEPT ![p] = @ \o buckets[p][p + 1]]
    /\ SendLoopAdvance(p)
    /\ UNCHANGED <<cfg, n, all_data, offset, local_data, samples,
                   gathered_samples, pivots, buckets, recv_sizes, late, count,
                   comm, coll, hist>>

\* One record of the bucket for rank cur_p.
ExchSend(p) ==
    /\ pc[p] = "exch_send"
    /\ cur_p[p] # p
    /\ cur_i[p] < Len(buckets[p][cur_p[p] + 1])
    /\ Send(p, cur_p[p], RecordFrame(TagExchange, buckets[p][cur_p[p] + 1][cur_i[p] + 1]))
    /\ cur_i' = [cur_i EXCEPT ![p] = @ + 1]
    /\ UNCHANGED <<cfg, pc, n, all_data, offset, local_data, samples,
                   gathered_samples, mid, late, cur_p, count, coll, hist>>

\* The bucket for rank cur_p is sent.
ExchSendNext(p) ==
    /\ pc[p] = "exch_send"
    /\ cur_p[p] # p
    /\ cur_i[p] >= Len(buckets[p][cur_p[p] + 1])
    /\ SendLoopAdvance(p)
    /\ UNCHANGED <<cfg, n, all_data, offset, local_data, samples,
                   gathered_samples, mid, late, count, comm, coll, hist>>

\* One record from rank cur_p, appended to new_local.
ExchRecv(p) ==
    /\ pc[p] = "exch_recv"
    /\ cur_p[p] < size
    /\ cur_p[p] # p
    /\ cur_i[p] < recv_sizes[p][cur_p[p] + 1]
    /\ Recv(cur_p[p], p, TagExchange)
    /\ new_local' = [new_local EXCEPT ![p] =
                         Append(@, decode(Received(cur_p[p], p, TagExchange).buf))]
    /\ cur_i' = [cur_i EXCEPT ![p] = @ + 1]
    /\ UNCHANGED <<cfg, pc, n, all_data, offset, local_data, samples,
                   gathered_samples, pivots, buckets, recv_sizes, late, cur_p,
                   count, coll, hist>>

\* p == rank, or everything rank cur_p announced is received: p++.
ExchRecvNext(p) ==
    /\ pc[p] = "exch_recv"
    /\ cur_p[p] < size
    /\ \/ cur_p[p] = p
       \/ cur_i[p] >= recv_sizes[p][cur_p[p] + 1]
    /\ cur_p' = [cur_p EXCEPT ![p] = @ + 1]
    /\ cur_i' = [cur_i EXCEPT ![p] = 0]
    /\ UNCHANGED <<cfg, pc, n, all_data, offset, local_data, samples,
                   gathered_samples, mid, late, count, comm, coll, hist>>

\* ---------------------------------------------------- final sort, gather

\* sequential_sort(new_local); final_local_n enters MPI_Gather.
FinalSort(p) ==
    /\ pc[p] = "exch_recv"
    /\ cur_p[p] >= size
    /\ new_local' = [new_local EXCEPT ![p] = sequential_sort(@)]
    /\ gath' = [gath EXCEPT ![p] = Len(new_local[p])]
    /\ pc' = [pc EXCEPT ![p] = "gather"]
    /\ cur_p' = [cur_p EXCEPT ![p] = 1]
    /\ cur_i' = [cur_i EXCEPT ![p] = 0]
    /\ UNCHANGED <<cfg, n, all_data, offset, local_data, samples,
                   gathered_samples, pivots, buckets, recv_sizes, late, count,
                   comm, bcast_n, bcast_piv, a2a, hist>>

\* Rank 0: MPI_Gather returns final_counts; final_all starts as new_local.
GatherCounts ==
    /\ pc[MASTER] = "gather"
    /\ \A q \in Procs : gath[q] >= 0
    /\ final_counts' = [q \in 1..size |-> gath[q - 1]]
    /\ final_all' = new_local[MASTER]
    /\ pc' = [pc EXCEPT ![MASTER] = "gather_recv"]
    /\ UNCHANGED <<cfg, n, all_data, offset, local_data, samples,
                   gathered_samples, mid, output_file, cur_p, cur_i, count,
                   comm, coll, hist>>

\* Rank 0: one record of rank cur_p's final partition.
GatherRecv ==
    /\ pc[MASTER] = "gather_recv"
    /\ cur_p[MASTER] < size
    /\ cur_i[MASTER] < final_counts[cur_p[MASTER] + 1]
    /\ Recv(cur_p[MASTER], MASTER, TagGather)
    /\ final_all' = Append(final_all,
           decode(Received(cur_p[MASTER], MASTER, TagGather).buf))
    /\ cur_i' = [cur_i EXCEPT ![MASTER] = @ + 1]
    /\ UNCHANGED <<cfg, pc, n, all_data, offset, local_data, samples,
                   gathered_samples, mid, final_counts, output_file, cur_p,
                   count, coll, hist>>

\* Rank 0: rank cur_p's final partition is complete; p++.
GatherRecvNext ==
    /\ pc[MASTER] = "gather_recv"
    /\ cur_p[MASTER] < size
    /\ cur_i[MASTER] >= final_counts[cur_p[MASTER] + 1]
    /\ cur_p' = [cur_p EXCEPT ![MASTER] = @ + 1]
    /\ cur_i' = [cur_i EXCEPT ![MASTER] = 0]
    /\ UNCHANGED <<cfg, pc, n, all_data, offset, local_data, samples,
                   gathered_samples, mid, late, count, comm, coll, hist>>

\* Mutant of GatherSend: the record goes out under the exchange's tag.
GatherSendWrongTag(p) ==
    /\ p # MASTER
    /\ pc[p] = "gather"
    /\ cur_i[p] < Len(new_local[p])
    /\ Send(p, MASTER, RecordFrame(TagExchange, new_local[p][cur_i[p] + 1]))
    /\ cur_i' = [cur_i EXCEPT ![p] = @ + 1]
    /\ UNCHANGED <<cfg, pc, n, all_data, offset, local_data, samples,
                   gathered_samples, mid, late, cur_p, count, coll, hist>>

\* Another rank: one record of its final partition to rank 0.
GatherSend(p) ==
    /\ p # MASTER
    /\ pc[p] = "gather"
    /\ cur_i[p] < Len(new_local[p])
    /\ Send(p, MASTER, RecordFrame(TagGather, new_local[p][cur_i[p] + 1]))
    /\ cur_i' = [cur_i EXCEPT ![p] = @ + 1]
    /\ UNCHANGED <<cfg, pc, n, all_data, offset, local_data, samples,
                   gathered_samples, mid, late, cur_p, count, coll, hist>>

\* Rank 0: write_file(argv[2], final_all).
WriteFile ==
    /\ pc[MASTER] = "gather_recv"
    /\ cur_p[MASTER] >= size
    /\ out_ok
    /\ output_file' = <<final_all>>
    /\ pc' = [pc EXCEPT ![MASTER] = "finalize"]
    /\ UNCHANGED <<cfg, n, all_data, offset, local_data, samples,
                   gathered_samples, mid, final_counts, final_all, cur_p,
                   cur_i, count, comm, coll, hist>>

\* write_file throws before writing anything; rank 0 terminates abnormally.
WriteFileFails ==
    /\ pc[MASTER] = "gather_recv"
    /\ cur_p[MASTER] >= size
    /\ ~out_ok
    /\ pc' = [pc EXCEPT ![MASTER] = "aborted"]
    /\ UNCHANGED <<cfg, n, all_data, offset, local_data, samples,
                   gathered_samples, mid, late, cur_p, cur_i, count, comm,
                   coll, hist>>

\* The timing report on rank 0, MPI_Finalize, return 0.
Finalize(p) ==
    /\ IF p = MASTER THEN pc[p] = "finalize"
       ELSE pc[p] = "gather" /\ cur_i[p] >= Len(new_local[p])
    /\ pc' = [pc EXCEPT ![p] = "done"]
    /\ UNCHANGED <<cfg, n, all_data, offset, local_data, samples,
                   gathered_samples, mid, late, cur_p, cur_i, count, comm,
                   coll, hist>>

\* ------------------------------------------------------------ specification
Next ==
    \/ \E p \in Procs : UsageExit(p)
    \/ ReadInput
    \/ ReadInputFails
    \/ BcastNRoot
    \/ \E p \in Procs : BcastNRecv(p)
    \/ ScatterCopy
    \/ ScatterSend
    \/ ScatterNext
    \/ \E p \in Procs : ScatterRecv(p)
    \/ \E p \in Procs : LocalSort(p)
    \/ SampleRecvCount
    \/ SampleRecv
    \/ SampleRecvNext
    \/ \E p \in Procs : SampleSendCount(p)
    \/ \E p \in Procs : SampleSend(p)
    \/ PivotSelect
    \/ PivotSelectFault
    \/ PivotSelectGarbage
    \/ \E p \in Procs : PivotsAlloc(p)
    \/ PivotBcastRoot
    \/ \E p \in Procs : PivotBcastRecv(p)
    \/ \E p \in Procs : Partition(p)
    \/ \E p \in Procs : Alltoall(p)
    \/ \E p \in Procs : ExchKeepOwn(p)
    \/ \E p \in Procs : ExchSend(p)
    \/ \E p \in Procs : ExchSendNext(p)
    \/ \E p \in Procs : ExchRecv(p)
    \/ \E p \in Procs : ExchRecvNext(p)
    \/ \E p \in Procs : FinalSort(p)
    \/ GatherCounts
    \/ \E p \in Procs : GatherSend(p)
    \/ GatherRecv
    \/ GatherRecvNext
    \/ WriteFile
    \/ WriteFileFails
    \/ \E p \in Procs : Finalize(p)

Spec == Init /\ [][Next]_vars

\* Every rank is a running process of its own: the group does not stop while
\* some rank has a step to take.
FairSpec == Init /\ [][Next]_vars /\ WF_vars(Next)


\* ------------------------------------------------------------- vocabulary
dataset == read_file(input_file)

\* The run was started with the right arguments and both files open.
NormalRun == argc = ArgcExpected /\ in_ok /\ out_ok

AllDone == \A p \in Procs : pc[p] = "done"

\* A rank died: an uncaught exception or a faulting read.
Died(p) == pc[p] \in {"aborted", "crashed"}

IsSorted(s) == \A i \in 1..(Len(s) - 1) : Leq(s[i], s[i + 1])

Occurrences(s, x) == Cardinality({ i \in 1..Len(s) : s[i] = x })

SameMultiset(a, b) ==
    /\ Len(a) = Len(b)
    /\ \A i \in 1..Len(a) : Occurrences(a, a[i]) = Occurrences(b, a[i])

\* A rank has sorted its final partition.
PastFinalSort(p) == pc[p] \in {"gather", "gather_recv", "finalize", "done"}

FinalPartitions == Flatten([q \in 1..size |-> new_local[q - 1]])

\* The group is in a state it can never leave.
Stuck == ~ENABLED Next

\* C1: whenever the run completes, what rank 0 wrote is the concatenation of
\* the final partitions in rank order, is non-decreasing, and is the input
\* dataset as a multiset.
C1_OutputIsSortedInput ==
    AllDone =>
        /\ output_file = <<FinalPartitions>>
        /\ IsSorted(output_file[1])
        /\ SameMultiset(output_file[1], dataset)

\* A completed three-rank run whose input was not sorted and whose records
\* ended on more than one rank.
C1_Witness ==
    /\ AllDone
    /\ size = 3
    /\ Len(dataset) = 3
    /\ ~IsSorted(dataset)
    /\ Cardinality({ p \in Procs : new_local[p] # <<>> }) >= 2

\* C2: with sends that complete only at the matching receive, no state with
\* a rank in the exchange phase is a dead end.
C2_ExchangeNeverDeadlocks ==
    (~buffered /\ size >= 2 /\ \E p \in Procs : pc[p] \in {"exch_send", "exch_recv"})
        => ~Stuck

\* C3: after the final sort, for ranks p < q every record of p's final
\* partition is <= every record of q's.
C3_GlobalOrder ==
    \A p \in Procs, q \in Procs :
        (p < q /\ PastFinalSort(p) /\ PastFinalSort(q)) =>
            \A i \in 1..Len(new_local[p]), j \in 1..Len(new_local[q]) :
                Leq(new_local[p][i], new_local[q][j])

\* Three ranks past the final sort, two equal pivots, the middle partition
\* empty and the outer ones not.
C3_Witness ==
    /\ size = 3
    /\ \A p \in Procs : PastFinalSort(p)
    /\ pivots[1][1] = pivots[1][2]
    /\ new_local[1] = <<>>
    /\ new_local[0] # <<>>
    /\ new_local[2] # <<>>

\* Records a rank holds as its partition at its current position.
Held(p) ==
    CASE pc[p] = "bcast_n" -> all_data
      [] pc[p] = "scatter" /\ p = MASTER ->
            IF cur_p[p] = MASTER THEN all_data
            ELSE local_data[p] \o SubSeq(all_data, offset + cur_i[p] + 1, Len(all_data))
      [] pc[p] = "scatter" /\ p # MASTER -> SubSeq(local_data[p], 1, cur_i[p])
      [] pc[p] \in {"collect", "pivot_bcast"} -> local_data[p]
      [] pc[p] = "alltoall" -> Flatten(buckets[p])
      [] pc[p] = "exch_send" ->
            new_local[p]
            \o SubSeq(buckets[p][cur_p[p] + 1], cur_i[p] + 1, Len(buckets[p][cur_p[p] + 1]))
            \o Flatten(SubSeq(buckets[p], cur_p[p] + 2, size))
      [] pc[p] = "exch_recv" -> new_local[p]
      [] pc[p] = "gather" /\ p = MASTER -> new_local[p]
      [] pc[p] = "gather" /\ p # MASTER -> SubSeq(new_local[p], cur_i[p] + 1, Len(new_local[p]))
      [] pc[p] \in {"gather_recv", "finalize"} -> final_all
      [] pc[p] = "done" /\ p = MASTER -> final_all
      [] OTHER -> <<>>

RecordTags == {TagScatter, TagExchange, TagGather}

\* Records of the frames sent from s to r and not yet received.
RECURSIVE RecordsOf(_)
RecordsOf(q) ==
    IF q = <<>> THEN <<>>
    ELSE (IF q[1].tag \in RecordTags THEN <<decode(q[1].buf)>> ELSE <<>>)
         \o RecordsOf(Tail(q))

RECURSIVE HeldUpTo(_)
HeldUpTo(k) == IF k = 0 THEN <<>> ELSE HeldUpTo(k - 1) \o Held(k - 1)

RECURSIVE InTransitUpTo(_)
InTransitUpTo(j) ==
    IF j = 0 THEN <<>>
    ELSE InTransitUpTo(j - 1)
         \o RecordsOf(chan[<<(j - 1) \div size, (j - 1) % size>>])

AllHeld == HeldUpTo(size)
InTransit == InTransitUpTo(size * size)

\* C4: once rank 0 has read the input and while no rank has died, the
\* records held in the partitions together with the records in transit are
\* the input dataset as a multiset; the output written has n records.
C4_Conservation ==
    (argc = ArgcExpected /\ pc[MASTER] # "start" /\ \A p \in Procs : ~Died(p)) =>
        /\ SameMultiset(AllHeld \o InTransit, dataset)
        /\ output_file # <<>> => Len(output_file[1]) = Len(dataset)

\* Records are in flight between ranks during the exchange.
C4_Witness ==
    /\ size = 3
    /\ Len(dataset) = 3
    /\ pc[1] = "exch_recv"
    /\ Len(InTransit) >= 2
    /\ \A p \in Procs : ~Died(p)

\* C5: with an empty dataset no phase fails: no out-of-range read, no rank
\* dies, the run never gets stuck before every rank is done, and the output
\* has zero records.
C5_EmptyInputCompletes ==
    (NormalRun /\ dataset = <<>>) =>
        /\ ~oob_read
        /\ \A p \in Procs : ~Died(p)
        /\ Stuck => AllDone
        /\ AllDone => output_file = << <<>> >>

AllIdentical(s) == \A i \in 1..Len(s) : s[i] = s[1]

\* C6: with n >= 1 identical records the run completes without error under
\* either send semantics, and the output is the dataset.
C6_SkewedDataCompletes ==
    (NormalRun /\ Len(dataset) >= 1 /\ AllIdentical(dataset)) =>
        /\ ~oob_read
        /\ \A p \in Procs : ~Died(p)
        /\ Stuck => AllDone
        /\ AllDone => output_file = <<dataset>>

\* Three identical records on three ranks, sends completing only at the
\* matching receive, run complete.
C6_Witness ==
    /\ NormalRun
    /\ ~buffered
    /\ size = 3
    /\ Len(dataset) = 3
    /\ AllIdentical(dataset)
    /\ AllDone
    /\ output_file = <<dataset>>

\* Share of rank p as the claim states it.
ClaimedShare(p) ==
    LET fl == CHOOSE q \in 0..Len(dataset) :
                  q * size <= Len(dataset) /\ Len(dataset) < (q + 1) * size
        rm == Len(dataset) - fl * size
    IN  fl + (IF p < rm THEN 1 ELSE 0)

RECURSIVE ClaimedStart(_)
ClaimedStart(p) == IF p = 0 THEN 0 ELSE ClaimedStart(p - 1) + ClaimedShare(p - 1)

ClaimedBlock(p) == SubSeq(dataset, ClaimedStart(p) + 1, ClaimedStart(p) + ClaimedShare(p))

\* A rank has its whole share and has not sorted it yet.
ScatterComplete(p) ==
    /\ pc[p] = "scatter"
    /\ IF p = MASTER THEN cur_p[p] >= size ELSE cur_i[p] >= Len(local_data[p])

\* C7: rank p's initial share is the p-th consecutive block of the dataset,
\* of floor(n/k) + (1 if p < n mod k) records; rank 0 sends each other rank
\* as many records as that rank waits for; five records on two ranks are
\* shared 3 and 2.
C7_InitialShares ==
    /\ <<ShareCount(5, 2, 0), ShareCount(5, 2, 1)>> = <<3, 2>>
    /\ \A p \in Procs :
          /\ ScatterComplete(p) => local_data[p] = ClaimedBlock(p)
          /\ pc[p] \notin {"start", "bcast_n", "exit1"}
                 => Len(local_data[p]) = ClaimedShare(p)
          /\ (ScatterComplete(MASTER) /\ p # MASTER)
                 => nsent[<<MASTER, p>>] = ClaimedShare(p)

\* The uneven split: three records on two ranks give shares 2 and 1.
C7_Witness ==
    /\ size = 2
    /\ Len(dataset) = 3
    /\ ScatterComplete(0) /\ ScatterComplete(1)
    /\ Len(local_data[0]) = 2 /\ Len(local_data[1]) = 1
    /\ local_data[0] \o local_data[1] = dataset

\* A rank has taken part in every pivot broadcast.
PastPivotBcast(p) ==
    \/ pc[p] = "pivot_bcast" /\ cur_i[p] >= size - 1
    \/ pc[p] \in {"alltoall", "exch_send", "exch_recv", "gather", "gather_recv",
                  "finalize", "done"}

\* C8: after the pivot broadcast every rank holds size - 1 pivots, the same
\* as rank 0 and the ones rank 0 selected from the sorted samples.
C8_SamePivots ==
    \A p \in Procs :
        PastPivotBcast(p) =>
            /\ Len(pivots[p]) = size - 1
            /\ pivots[p] = pivots[MASTER]
            /\ ~oob_read => pivots[p] = SelectPivots(gathered_samples, size)

\* Three ranks about to partition with two different pivots.
C8_Witness ==
    /\ size = 3
    /\ \A p \in Procs : pc[p] = "pivot_bcast" /\ cur_i[p] = 2
    /\ pivots[2][1] # pivots[2][2]
    /\ pivots[2] = pivots[0]

\* C9: with one process there are no samples and no pivots, every record
\* stays on rank 0, nothing is sent, and the output is what the baseline
\* sorter gives.
C9_SingleProcess ==
    size = 1 =>
        /\ samples[MASTER] = <<>>
        /\ gathered_samples = <<>>
        /\ pivots[MASTER] = <<>>
        /\ nsent[<<MASTER, MASTER>>] = 0
        /\ chan[<<MASTER, MASTER>>] = <<>>
        /\ pc[MASTER] \in {"alltoall", "exch_send"} => buckets[MASTER] = <<local_data[MASTER]>>
        /\ PastFinalSort(MASTER) => SameMultiset(new_local[MASTER], dataset)
        /\ AllDone => output_file = <<baseline_sort(dataset)>>

\* A single-rank run of an unsorted three-record input, complete.
C9_Witness ==
    /\ size = 1
    /\ Len(dataset) = 3
    /\ ~IsSorted(dataset)
    /\ AllDone
    /\ output_file # <<>>

\* C10: when rank 0 cannot open a file, every process terminates and
\* nothing is written: no state in which rank 0 has died of it is a dead
\* end with a rank still waiting.
C10_IOErrorEndsEveryProcess ==
    pc[MASTER] = "aborted" =>
        /\ output_file = <<>>
        /\ Stuck => \A p \in Procs : pc[p] \in {"aborted", "done"}


\* C11: with the wrong argument count only rank 0 prints the usage line, no
\* rank goes on to open a file, to send or to wait for a message, and the
\* only way the group stops is with every rank returned 1.
C11_UsageError ==
    argc # ArgcExpected =>
        /\ diag \subseteq {MASTER}
        /\ pc[MASTER] = "exit1" => diag = {MASTER}
        /\ \A p \in Procs : pc[p] \in {"start", "exit1"}
        /\ all_data = <<>> /\ output_file = <<>>
        /\ bcast_n = -1
        /\ \A pr \in Pairs : nsent[pr] = 0 /\ chan[pr] = <<>>
        /\ Stuck => \A p \in Procs : pc[p] = "exit1"

\* Three ranks started with the wrong argument count have all returned.
C11_Witness ==
    /\ argc # ArgcExpected
    /\ size = 3
    /\ \A p \in Procs : pc[p] = "exit1"
    /\ diag = {MASTER}


\* A rank has left MPI_Alltoall.
PastAlltoall(p) ==
    pc[p] \in {"exch_send", "exch_recv", "gather", "gather_recv", "finalize", "done"}

\* Every rank has passed its send counts to MPI_Alltoall.
AllAnnounced == \A q \in Procs : a2a[q] # <<>>

ExchangeFrames(s, r) == SelectSeq(chan[<<s, r>>], LAMBDA f : f.tag = TagExchange)

\* C12: an exchange frame exists, or a rank is in the send or receive loop
\* of the exchange, only when every rank has announced its send counts; and
\* a rank in those loops knows the count every peer announced for it.
C12_CountsBeforePayload ==
    /\ (\E pr \in Pairs : ExchangeFrames(pr[1], pr[2]) # <<>>) => AllAnnounced
    /\ \A p \in Procs :
          PastAlltoall(p) =>
              /\ AllAnnounced
              /\ \A q \in Procs : recv_sizes[p][q + 1] = a2a[q][p + 1]

\* A rank is already receiving payload while another has not left MPI_Alltoall.
C12_Witness ==
    /\ size = 3
    /\ pc[2] = "alltoall"
    /\ pc[1] = "exch_recv" /\ cur_i[1] >= 1
    /\ AllAnnounced


\* What rank r's receive loop collects: the buckets for r of the other
\* ranks, in rank order.
RECURSIVE BucketsFor(_, _)
BucketsFor(r, k) ==
    IF k = 0 THEN <<>>
    ELSE BucketsFor(r, k - 1)
         \o (IF k - 1 = r THEN <<>> ELSE buckets[k - 1][r + 1])

\* A rank has finished its exchange receive loop and not sorted yet.
ExchangeComplete(r) == pc[r] = "exch_recv" /\ cur_p[r] >= size

\* C13: for distinct ranks s and r the count r expects from s is the count
\* s announced, which is the size of s's bucket for r; when r's exchange
\* ends it has received exactly those records, with the values sent, and no
\* exchange frame for r is left.
C13_ExchangeCounts ==
    \A r \in Procs :
        /\ PastAlltoall(r) =>
              \A s \in Procs \ {r} :
                  /\ recv_sizes[r][s + 1] = a2a[s][r + 1]
                  /\ a2a[s][r + 1] = Len(buckets[s][r + 1])
        /\ ExchangeComplete(r) =>
              /\ new_local[r] = buckets[r][r + 1] \o BucketsFor(r, size)
              /\ \A s \in Procs : ExchangeFrames(s, r) = <<>>

\* Rank 2 of three has completed an exchange in which it received one
\* record from each other rank and kept none of its own.
C13_Witness ==
    /\ size = 3
    /\ ExchangeComplete(2)
    /\ recv_sizes[2][1] = 1
    /\ recv_sizes[2][2] = 1
    /\ buckets[2][3] = <<>>
    /\ new_local[2] = buckets[0][3] \o buckets[1][3]


\* A rank has bucketed its local records.
Partitioned(p) == a2a[p] # <<>>

\* Destination the claim gives record x under pivots pv: the smallest
\* (0-based) pivot index whose pivot is greater than x, Len(pv) if none.
ClaimedDestination(pv, x) ==
    LET G == { i \in 0..(Len(pv) - 1) : Less(x, pv[i + 1]) }
    IN  IF G = {} THEN Len(pv) ELSE CHOOSE i \in G : \A j \in G : i <= j

\* pivot[d-1] <= x < pivot[d], the bounds open at d = 0 and d = Len(pv).
InRange(pv, x, d) ==
    /\ d >= 1 => Leq(pv[d], x)
    /\ d < Len(pv) => Less(x, pv[d + 1])

NonDecreasingPivots == { pv \in [1..(size - 1) -> Records] : IsSorted(pv) }

\* C14: under every non-decreasing pivot sequence of length size - 1 the
\* partitioner sends every record to the smallest pivot index whose pivot is
\* greater (size - 1 if none), so pivot[d-1] <= record < pivot[d] and a
\* record equal to a pivot goes above it; the buckets a rank builds hold each
\* of its local records exactly once, each in the bucket of its destination.
\* (The first conjunct does not depend on the run; it is evaluated once per
\* process count, when the group starts.)
C14_Partitioner ==
    /\ (\A p \in Procs : pc[p] = "start") =>
          \A pv \in NonDecreasingPivots : \A x \in Records :
              /\ upper_bound(pv, x) = ClaimedDestination(pv, x)
              /\ InRange(pv, x, upper_bound(pv, x))
              /\ \A i \in 1..Len(pv) : pv[i] = x => upper_bound(pv, x) >= i
    /\ \A p \in Procs :
          (Partitioned(p) /\ IsSorted(pivots[p])) =>
              /\ Len(buckets[p]) = size
              /\ SameMultiset(Flatten(buckets[p]), local_data[p])
              /\ \A d \in 1..size : \A i \in 1..Len(buckets[p][d]) :
                    /\ ClaimedDestination(pivots[p], buckets[p][d][i]) = d - 1
                    /\ InRange(pivots[p], buckets[p][d][i], d - 1)

\* A rank of three has bucketed a record equal to a pivot into the bucket
\* above that pivot.
C14_Witness ==
    /\ size = 3
    /\ \E p \in Procs :
          /\ Partitioned(p)
          /\ buckets[p][2] # <<>>
          /\ buckets[p][2][1] = pivots[p][1]
          /\ pivots[p][1] # pivots[p][2]


\* ---------------------------------------------------------------- C15

\* Rank 0 has chosen its pivots.
PivotsSelected ==
    pc[MASTER] \in {"pivot_bcast", "alltoall", "exch_send", "exch_recv",
                    "gather", "gather_recv", "finalize", "done"}

\* The sample sets of ranks 0..k-1, concatenated in rank order.
RECURSIVE SamplesUpTo(_)
SamplesUpTo(k) == IF k = 0 THEN <<>> ELSE SamplesUpTo(k - 1) \o samples[k - 1]

\* floor(a / b) for a >= 0, b >= 1, by its defining inequality.
Floor(a, b) == CHOOSE q \in 0..a : q * b <= a /\ a < (q + 1) * b

\* C15: once the coordinator has selected the pivots from m >= 1 gathered
\* samples, its sample list is the sorted concatenation of all processes'
\* sample sets, pivot i (0-based, i = 0..k-2) is the element at 0-based
\* position floor((i+1)*m/k) of that list, and the k-1 pivots are
\* non-decreasing.
C15_PivotSelection ==
    (PivotsSelected /\ Len(gathered_samples) >= 1) =>
        LET m == Len(gathered_samples)
        IN  /\ IsSorted(gathered_samples)
            /\ SameMultiset(gathered_samples, SamplesUpTo(size))
            /\ Len(pivots[MASTER]) = size - 1
            /\ \A i \in 0..(size - 2) :
                   /\ Floor((i + 1) * m, size) < m
                   /\ pivots[MASTER][i + 1] =
                          gathered_samples[Floor((i + 1) * m, size) + 1]
            /\ IsSorted(pivots[MASTER])

\* Three processes, six samples that arrived out of order, two distinct pivots.
C15_Witness ==
    /\ size = 3
    /\ PivotsSelected
    /\ Len(gathered_samples) = 6
    /\ ~IsSorted(SamplesUpTo(size))
    /\ pivots[MASTER][1] # pivots[MASTER][2]


\* ---------------------------------------------------------------- C16

\* Process p has sorted its partition and drawn its samples.
Sampled(p) ==
    pc[p] \in {"collect", "pivot_bcast", "alltoall", "exch_send", "exch_recv",
               "gather", "gather_recv", "finalize", "done", "crashed"}

\* Rank 0 has received the sample sets of all other ranks.
SamplesCollected ==
    \/ pc[MASTER] = "collect" /\ cur_p[MASTER] >= size
    \/ pc[MASTER] = "crashed"
    \/ PivotsSelected

\* C16 as stated: a process whose sorted partition is smaller than the target
\* sample count s = k - 1 contributes fewer than s samples.
C16_SmallPartitionFewerSamples ==
    \A p \in Procs :
        (Sampled(p) /\ Len(local_data[p]) < size - 1) =>
            Len(samples[p]) < size - 1

\* C16 amended: of the partitions smaller than s = k - 1 only the empty one
\* contributes fewer than s samples (none: every index is >= n and skipped); a
\* non-empty one contributes exactly s, the records at floor(i*n/(s+1)) for
\* i = 1..s, all below n, with repeats.  The coordinator takes whatever count
\* each process announces: what it has gathered is the sample sets of all
\* processes, whose sizes may differ from s.
C16_SamplerEdgeCase ==
    /\ \A p \in Procs :
          (Sampled(p) /\ Len(local_data[p]) < size - 1) =>
              IF local_data[p] = <<>>
              THEN samples[p] = <<>>
              ELSE /\ Len(samples[p]) = size - 1
                   /\ \A i \in 1..(size - 1) :
                          /\ Floor(i * Len(local_data[p]), size) < Len(local_data[p])
                          /\ samples[p][i] =
                                 local_data[p][Floor(i * Len(local_data[p]), size) + 1]
    /\ SamplesCollected =>
          /\ Len(gathered_samples) = Len(SamplesUpTo(size))
          /\ SameMultiset(gathered_samples, SamplesUpTo(size))

\* Three processes and one record: one partition of size 1 < 2 gave two
\* samples, another is empty and gave none, and rank 0 went on to the pivots.
C16_Witness ==
    /\ size = 3
    /\ PivotsSelected
    /\ \E p \in Procs : Len(local_data[p]) = 1 /\ Len(samples[p]) = 2
    /\ \E q \in Procs : local_data[q] = <<>> /\ samples[q] = <<>>


\* ---------------------------------------------------------------- C17

\* The send loop of p has passed p's own bucket.
OwnBucketPassed(p) ==
    \/ pc[p] = "exch_send" /\ cur_p[p] > p
    \/ pc[p] = "exch_recv"

\* Records p's receive loop has taken from ranks below k, p itself left out.
RECURSIVE TakenBelow(_, _)
TakenBelow(p, k) ==
    IF k = 0 THEN 0
    ELSE TakenBelow(p, k - 1) + (IF k - 1 = p THEN 0 ELSE recv_sizes[p][k])

\* C17: no process ever sends a frame to itself, and none waits for one: the
\* loops of rank 0 over the other ranks start after rank 0, a process's own
\* bucket is the head of its new partition as soon as its send loop has passed
\* it and the receive loop counts nothing for the process itself, rank 0's
\* scatter share is the head of the input copied in place, and the gathered
\* result starts as rank 0's own final partition.
C17_SelfTransfersLocal ==
    /\ \A p \in Procs : nsent[<<p, p>>] = 0 /\ chan[<<p, p>>] = <<>>
    /\ pc[MASTER] \in {"collect", "gather_recv"} => cur_p[MASTER] >= 1
    /\ \A p \in Procs :
          /\ OwnBucketPassed(p) =>
                /\ Len(new_local[p]) >= Len(buckets[p][p + 1])
                /\ SubSeq(new_local[p], 1, Len(buckets[p][p + 1])) = buckets[p][p + 1]
          /\ (pc[p] = "exch_recv" /\ cur_p[p] <= size) =>
                /\ cur_p[p] = p => cur_i[p] = 0
                /\ Len(new_local[p]) =
                       Len(buckets[p][p + 1])
                       + TakenBelow(p, IF cur_p[p] < size THEN cur_p[p] ELSE size)
                       + (IF cur_p[p] < size THEN cur_i[p] ELSE 0)
    /\ (pc[MASTER] = "scatter" /\ cur_p[MASTER] > MASTER) =>
          local_data[MASTER] = ClaimedBlock(MASTER)
    /\ pc[MASTER] \in {"gather_recv", "finalize", "done"} =>
          /\ Len(final_all) >= Len(new_local[MASTER])
          /\ SubSeq(final_all, 1, Len(new_local[MASTER])) = new_local[MASTER]

\* Three processes; rank 1 kept a record of its own, has also taken one from
\* rank 0, and stands at itself in the receive loop.
C17_Witness ==
    /\ size = 3
    /\ pc[1] = "exch_recv"
    /\ cur_p[1] = 1
    /\ buckets[1][2] # <<>>
    /\ Len(new_local[1]) = Len(buckets[1][2]) + 1
    /\ nsent[<<0, 1>>] >= 2


\* ---------------------------------------------------------------- C18

\* C18: with at least one record and at least two processes, every non-empty
\* partition yields exactly k - 1 samples and an empty one none, rank 0 ends
\* its collection with m >= k - 1 samples, every index floor(i*m/k),
\* i = 1..k-1, is in [0, m), and no pivot is ever read from outside the
\* gathered samples.
C18_PivotReadsInBounds ==
    (argc = ArgcExpected /\ Len(dataset) >= 1 /\ size >= 2) =>
        /\ ~oob_read
        /\ pc[MASTER] # "crashed"
        /\ \A p \in Procs :
              Sampled(p) =>
                  Len(samples[p]) = IF local_data[p] = <<>> THEN 0 ELSE size - 1
        /\ SamplesCollected =>
              LET m == Len(gathered_samples)
              IN  /\ m >= size - 1
                  /\ \A i \in 1..(size - 1) : Floor(i * m, size) \in 0..(m - 1)

\* Three processes, one record: two samples, and rank 0 picked both pivots
\* from them.
C18_Witness ==
    /\ size = 3
    /\ Len(dataset) = 1
    /\ PivotsSelected
    /\ Len(gathered_samples) = 2
    /\ pivots[MASTER] = <<dataset[1], dataset[1]>>
    /\ ~oob_read


\* ---------------------------------------------------------------- C19

\* The phases of the state machine, numbered in order, read off the position
\* of a process: INIT, SCATTER, local sort / sample / collect, pivot
\* broadcast, partition / count exchange, exchange, final sort / gather,
\* shutdown, DONE.
PhaseNo(p) ==
    CASE pc[p] \in {"start", "bcast_n"}       -> 0
      [] pc[p] = "scatter"                    -> 1
      [] pc[p] = "collect"                    -> 2
      [] pc[p] = "pivot_bcast"                -> 3
      [] pc[p] = "alltoall"                   -> 4
      [] pc[p] \in {"exch_send", "exch_recv"} -> 5
      [] pc[p] \in {"gather", "gather_recv"}  -> 6
      [] pc[p] = "finalize"                   -> 7
      [] pc[p] = "done"                       -> 8
      [] OTHER                                -> -1

\* Buffered sends, both files open, at least one record.
BufferedRun == buffered /\ NormalRun /\ Len(dataset) >= 1

\* No step takes a process back, out of the sequence, or over a phase (rank 0
\* alone has the shutdown phase in which it writes the output).
PhasesInOrder ==
    \A p \in Procs :
        /\ PhaseNo(p) >= 0
        /\ PhaseNo(p)' >= 0
        /\ \/ PhaseNo(p)' = PhaseNo(p)
           \/ PhaseNo(p)' = PhaseNo(p) + 1
           \/ p # MASTER /\ PhaseNo(p) = 6 /\ PhaseNo(p)' = 8

\* C19: with buffered sends, both files open and n >= 1 records, for every
\* process count, every process moves through the phases in order, one after
\* the other, and every process eventually reaches DONE.
C19_BufferedRunTerminates ==
    /\ [][BufferedRun => PhasesInOrder]_vars
    /\ BufferedRun ~> AllDone

\* Three processes, three records, buffered sends: all done, after frames
\* went between ranks 1 and 2 in both directions.
C19_Witness ==
    /\ BufferedRun
    /\ size = 3
    /\ Len(dataset) = 3
    /\ AllDone
    /\ nsent[<<2, 1>>] >= 1
    /\ nsent[<<1, 2>>] >= 1

====
